---- MODULE Spec2Model ----
(***************************************************************************)
(* Model of the RAPTOR earliest-arrival router of pt-routing.              *)
(*                                                                         *)
(* Instants are integers (seconds on an absolute scale).  Positions in a   *)
(* route's stop sequence and trip indices are 1-based here (0-based in the *)
(* C++ source).  An absent optional boarding stop is NoStop; an absent     *)
(* optional (route, trip index) pair is the empty sequence.                *)
(***************************************************************************)
EXTENDS Integers, Sequences, FiniteSets, TLC

VARIABLES
    routes,               \* Schedule::get_routes(): the routes with their trips
    transfers,            \* Raptor::transfers: stop -> vector of (stop, duration)
    routes_serving_stop,  \* Raptor::routes_serving_stop: stop -> vector of (route, index)
    assertions,           \* whether the build keeps assert() (no NDEBUG)
    qs,                   \* per query: the locals of Raptor::route() and its RaptorState
    hist,                 \* calls made on a RaptorState by a direct caller, with results
    build                 \* the construction in progress (TransferManager, Schedule), with its inputs

vars == <<routes, transfers, routes_serving_stop, assertions, qs, hist, build>>

shared == <<routes, transfers, routes_serving_stop>>

-----------------------------------------------------------------------------
(* Bounds of the model *)

\* latest first-stop instant of a generated trip
MaxTime == 2

\* number of direct calls a caller makes on one RaptorState
MaxCalls == 3

Stops == {1, 2, 3, 4}

NoStop == 0

\* no construction is in progress: the schedule and the transfers are built
NoBuild == [kind |-> "none"]

-----------------------------------------------------------------------------
(* Small helpers *)

Min(S) == CHOOSE x \in S : \A y \in S : x <= y

Min2(a, b) == IF a < b THEN a ELSE b

Range(f) == {f[i] : i \in DOMAIN f}

\* std::ranges::find: position of the first element equal to x, Len+1 for end()
FindFirst(seq, x) ==
    IF \E i \in 1..Len(seq) : seq[i] = x
    THEN Min({i \in 1..Len(seq) : seq[i] = x})
    ELSE Len(seq) + 1

-----------------------------------------------------------------------------
(* Schedule: routes, trips, stop times *)

StopTime(a, d) == [arrival_time |-> a, departure_time |-> d]

StopSequence(route) == route.stops

\* Raptor::build_routes_serving_stop: for each route, each position of the
\* first trip adds (route, index) to the entry of the stop at that position.
\* Only the stops some route serves get an entry.
BuildRoutesServingStop(rts) ==
    LET served == UNION {Range(rts[r].stops) : r \in 1..Len(rts)}
        Entries(s) == UNION {{<<r, i>> : i \in {j \in 1..Len(rts[r].stops) :
                                                    rts[r].stops[j] = s}} :
                             r \in 1..Len(rts)}
    IN [s \in served |-> Entries(s)]

-----------------------------------------------------------------------------
(* LabelManager and RaptorState *)

JourneyInformation(arrival_time, boarding_stop, route_and_trip_index) ==
    [arrival_time |-> arrival_time,
     boarding_stop |-> boarding_stop,
     route_and_trip_index |-> route_and_trip_index]

\* LabelManager::add_label: insert_or_assign into the current round's labels
AddLabel(labels, stop, arrival_time, boarding_stop, route_and_trip_index) ==
    (stop :> JourneyInformation(arrival_time, boarding_stop, route_and_trip_index))
        @@ labels

EmptyMap == [s \in {} |-> 0]

\* RaptorState::RaptorState
NewRaptorState(origin_stop, destination, departure_time) ==
    [current_round_labels  |-> AddLabel(EmptyMap, origin_stop, departure_time, NoStop, <<>>),
     previous_round_labels |-> EmptyMap,
     earliest_arrival_time |-> (origin_stop :> departure_time),
     improved_stops        |-> {origin_stop},
     n_round               |-> 0,
     destination           |-> destination]

\* two other tests an improvement could use, to set against the one of the
\* source: one that leaves out the stop's own best arrival, one that takes an
\* arrival no later than the best
CanImproveOnDestinationOnly(S, new_arrival_time, current_stop) ==
    \/ S.destination \notin DOMAIN S.earliest_arrival_time
    \/ new_arrival_time < S.earliest_arrival_time[S.destination]

CanImproveWhenNotLater(S, new_arrival_time, current_stop) ==
    \/ current_stop \notin DOMAIN S.earliest_arrival_time
    \/ new_arrival_time <= S.earliest_arrival_time[current_stop]

\* RaptorState::can_improve_current_journey_to_stop
CanImproveCurrentJourneyToStop(S, new_arrival_time, current_stop) ==
    IF current_stop \notin DOMAIN S.earliest_arrival_time
    THEN TRUE
    ELSE IF S.destination \notin DOMAIN S.earliest_arrival_time
         THEN new_arrival_time < S.earliest_arrival_time[current_stop]
         ELSE new_arrival_time < Min2(S.earliest_arrival_time[current_stop],
                                      S.earliest_arrival_time[S.destination])

\* RaptorState::try_improve_stop_arrival_time: the state after the call and
\* the value returned
TryImproveStop(S, stop, new_arrival_time, boarding_stop, route_with_trip_index) ==
    IF CanImproveCurrentJourneyToStop(S, new_arrival_time, stop)
    THEN [state |-> [S EXCEPT
                       !.current_round_labels =
                           AddLabel(@, stop, new_arrival_time, boarding_stop,
                                    route_with_trip_index),
                       !.earliest_arrival_time = (stop :> new_arrival_time) @@ @,
                       !.improved_stops = @ \cup {stop}],
          ret |-> TRUE]
    ELSE [state |-> S, ret |-> FALSE]

\* a new round that would also empty the marked set
NewRoundClearingMarks(S) ==
    [S EXCEPT !.n_round = @ + 1,
              !.previous_round_labels = S.current_round_labels,
              !.improved_stops = {}]

\* RaptorState::new_round with LabelManager::new_round
NewRoundState(S) ==
    [S EXCEPT !.n_round = @ + 1,
              !.previous_round_labels = S.current_round_labels]

\* a get_and_clear_improved_stops that would leave the marked set as it is
KeepImprovedStops(S) == S

\* RaptorState::get_and_clear_improved_stops: the state left behind
ClearImprovedStops(S) == [S EXCEPT !.improved_stops = {}]

\* RaptorState::have_stops_to_improve
HaveStopsToImprove(S) == S.improved_stops # {}

\* RaptorState::might_catch_earlier_trip
MightCatchEarlierTrip(S, stop, departure_time) ==
    /\ stop \in DOMAIN S.previous_round_labels
    /\ S.previous_round_labels[stop].arrival_time <= departure_time

\* RaptorState::current_arrival_time_to_stop
CurrentArrivalTimeToStop(S, stop) == S.earliest_arrival_time[stop]

\* RaptorState::previous_arrival_time_to_stop
PreviousArrivalTimeToStop(S, stop) == S.previous_round_labels[stop].arrival_time


-----------------------------------------------------------------------------
(* Raptor: the query *)

\* a search that would also take a trip leaving exactly at the given instant
FindEarliestTripNotBefore(route_trips, departure_time, stop_index) ==
    LET later == {t \in 1..Len(route_trips) :
                     route_trips[t][stop_index].departure_time >= departure_time}
    IN IF later = {} THEN Len(route_trips) + 1 ELSE CHOOSE x \in later : \A y \in later : x <= y

\* Raptor::find_earliest_trip: std::ranges::find_if over the route's trips in
\* order, on the departure at the given position; Len + 1 stands for end()
FindEarliestTrip(route_trips, departure_time, stop_index) ==
    LET later == {t \in 1..Len(route_trips) :
                     route_trips[t][stop_index].departure_time > departure_time}
    IN IF later = {} THEN Len(route_trips) + 1 ELSE Min(later)

\* Raptor::find_routes_to_examine: for each route serving a marked stop, the
\* earliest position of the route at which a marked stop stands
FindRoutesToExamine(rss, marked) ==
    LET hits == UNION {rss[s] : s \in marked \cap DOMAIN rss}
        rs == {p[1] : p \in hits}
    IN {<<r, Min({p[2] : p \in {h \in hits : h[1] = r}})>> : r \in rs}

\* Raptor::process_transfers, the body for one origin_stop: the arrival at
\* origin_stop is read once, then its transfers are tried in vector order
RECURSIVE RelaxTransfers(_, _, _, _, _)
RelaxTransfers(S, origin_stop, arrival_time_to_origin, stop_transfers, k) ==
    IF k > Len(stop_transfers)
    THEN S
    ELSE RelaxTransfers(
             TryImproveStop(S, stop_transfers[k][1],
                            arrival_time_to_origin + stop_transfers[k][2],
                            origin_stop, <<>>).state,
             origin_stop, arrival_time_to_origin, stop_transfers, k + 1)

\* transfers[origin_stop]: std::unordered_map::operator[] adds an empty
\* vector for a key it does not hold
TransfersAt(trs, stop) == IF stop \in DOMAIN trs THEN trs[stop] ELSE <<>>

TransfersAfterLookup(trs, stop) ==
    IF stop \in DOMAIN trs THEN trs ELSE (stop :> <<>>) @@ trs

ProcessTransfersFrom(S, trs, origin_stop) ==
    RelaxTransfers(S, origin_stop, CurrentArrivalTimeToStop(S, origin_stop),
                   TransfersAt(trs, origin_stop), 1)

\* Raptor::process_route, the while loop from current_stop_idx on: the state
\* after the scan, whether assert(earlier_trip != route_trips.end()) held and,
\* when it did not, whether the loop would read the trip at end() afterwards.
\* followed lists, for each position passed, the values of trip_index and
\* hop_on_stop before and after the body of the loop
RECURSIVE ScanTrip(_, _, _, _, _, _)
ScanTrip(S, route, r, trip_index, hop_on_stop, current_stop_idx) ==
    IF current_stop_idx > Len(route.trips[trip_index])
    THEN [state |-> S, asserted |-> TRUE, reads_end |-> FALSE, followed |-> <<>>]
    ELSE
      LET current_stoptime == route.trips[trip_index][current_stop_idx]
          current_stop == route.stops[current_stop_idx]
          res == TryImproveStop(S, current_stop, current_stoptime.arrival_time,
                                hop_on_stop, <<r, trip_index>>)
          searched == ~res.ret /\ MightCatchEarlierTrip(res.state, current_stop,
                                                        current_stoptime.departure_time)
          earlier_trip ==
              FindEarliestTrip(route.trips,
                               PreviousArrivalTimeToStop(res.state, current_stop),
                               current_stop_idx)
          found == earlier_trip <= Len(route.trips)
          changed == searched /\ found /\ earlier_trip # trip_index
          step == [current_stop_idx |-> current_stop_idx,
                   current_stop |-> current_stop,
                   searched |-> searched,
                   trip_index |-> trip_index,
                   hop_on_stop |-> hop_on_stop,
                   trip_index_after |-> IF changed THEN earlier_trip ELSE trip_index,
                   hop_on_stop_after |-> IF changed THEN current_stop ELSE hop_on_stop]
      IN IF searched /\ ~found
         THEN [state |-> res.state, asserted |-> FALSE,
               reads_end |-> current_stop_idx < Len(route.trips[trip_index]),
               followed |-> <<>>]
         ELSE LET rest == ScanTrip(res.state, route, r, step.trip_index_after,
                                   step.hop_on_stop_after, current_stop_idx + 1)
              IN [rest EXCEPT !.followed = <<step>> \o @]

\* Raptor::process_route
ProcessRoute(S, route, r, hop_on_stop_idx, hop_on_time) ==
    LET hop_on_stop == StopSequence(route)[hop_on_stop_idx]
        trip == FindEarliestTrip(route.trips, hop_on_time, hop_on_stop_idx)
    IN IF trip <= Len(route.trips)
       THEN ScanTrip(S, route, r, trip, hop_on_stop, hop_on_stop_idx + 1)
       ELSE [state |-> S, asserted |-> TRUE, reads_end |-> FALSE, followed |-> <<>>]

-----------------------------------------------------------------------------
(* Journey reconstruction *)

\* PTMovement: the trip and route are kept as indices into routes
PTMovement(rts, r, trip_index, from_stop_idx, to_stop_idx) ==
    [kind |-> "pt",
     from_stop |-> rts[r].stops[from_stop_idx],
     to_stop |-> rts[r].stops[to_stop_idx],
     route |-> r, trip |-> trip_index,
     from_stop_idx |-> from_stop_idx, to_stop_idx |-> to_stop_idx]

\* PTMovement::get_departure_time
GetDepartureTime(rts, m) == rts[m.route].trips[m.trip][m.from_stop_idx].departure_time

\* PTMovement::get_arrival_time
GetArrivalTime(rts, m) == rts[m.route].trips[m.trip][m.to_stop_idx].arrival_time

WalkingMovement(from_stop, to_stop) ==
    [kind |-> "walk", from_stop |-> from_stop, to_stop |-> to_stop]

\* Raptor::build_trip, the while loop: legs are put in front of the journey.
\* A stop met twice on the way back means the loop never ends.
RECURSIVE BuildTripFrom(_, _, _, _, _)
BuildTripFrom(rts, stop_labels, current_stop, journey, seen) ==
    IF current_stop \notin DOMAIN stop_labels
       \/ stop_labels[current_stop].boarding_stop = NoStop
    THEN [journey |-> journey, outcome |-> "returned"]
    ELSE IF current_stop \in seen
    THEN [journey |-> journey, outcome |-> "endless"]
    ELSE
      LET journey_to_here == stop_labels[current_stop]
          boarding_stop == journey_to_here.boarding_stop
          rt == journey_to_here.route_and_trip_index
          movement ==
              IF rt # <<>>
              THEN PTMovement(rts, rt[1], rt[2],
                              FindFirst(StopSequence(rts[rt[1]]), boarding_stop),
                              FindFirst(StopSequence(rts[rt[1]]), current_stop))
              ELSE WalkingMovement(boarding_stop, current_stop)
      IN BuildTripFrom(rts, stop_labels, boarding_stop, <<movement>> \o journey,
                       seen \cup {current_stop})

\* Raptor::build_trip
BuildTrip(rts, origin, destination, stop_labels) ==
    IF destination \notin DOMAIN stop_labels
    THEN [journey |-> <<>>, outcome |-> "returned"]
    ELSE BuildTripFrom(rts, stop_labels, destination, <<>>, {})

-----------------------------------------------------------------------------
(* One query: the locals of Raptor::route() and the steps of its loops *)

\* Raptor::route, up to the first process_transfers(status): todo_stops is
\* the copy of the improved stops that process_transfers iterates over
NewQuery(origin, destination, departure_time) ==
    [pc |-> "transfers",
     origin |-> origin,
     departure_time |-> departure_time,
     state |-> NewRaptorState(origin, destination, departure_time),
     todo_stops |-> {origin},
     todo_routes |-> {},
     journey |-> <<>>]

\* one iteration of the loop of process_transfers
TransferStep(Q, trs, origin_stop) ==
    [Q EXCEPT !.state = ProcessTransfersFrom(Q.state, trs, origin_stop),
              !.todo_stops = @ \ {origin_stop}]

\* while (have_stops_to_improve()) { new_round(); find_routes_to_examine(
\* get_and_clear_improved_stops()) ...
BeginRoundStep(Q, rss) ==
    [Q EXCEPT !.state = ClearImprovedStops(NewRoundState(Q.state)),
              !.todo_routes = FindRoutesToExamine(rss, Q.state.improved_stops),
              !.pc = "scan"]

\* one iteration of the loop over routes_to_examine.  A failed assertion
\* aborts the program; without assertions the scan goes on with trip = end(),
\* which is harmless after the last position and a read past the vector's end
\* (taken as a crash) before it
RouteStep(Q, rts, p, with_assertions) ==
    LET route == rts[p[1]]
        stop == StopSequence(route)[p[2]]
        hop_on_time == PreviousArrivalTimeToStop(Q.state, stop)
        res == ProcessRoute(Q.state, route, p[1], p[2], hop_on_time)
    IN [Q EXCEPT !.state = res.state,
                 !.todo_routes = @ \ {p},
                 !.pc = IF res.asserted \/ (~with_assertions /\ ~res.reads_end)
                        THEN "scan" ELSE "aborted"]

\* the call process_transfers(status) that ends a round
BeginTransfersStep(Q) ==
    [Q EXCEPT !.todo_stops = Q.state.improved_stops, !.pc = "transfers"]

\* return build_trip(origin, destination, status.get_label_manager())
ReturnStep(Q, rts) ==
    LET built == BuildTrip(rts, Q.origin, Q.state.destination,
                           Q.state.current_round_labels)
    IN [Q EXCEPT !.journey = built.journey,
                 !.pc = IF built.outcome = "returned" THEN "done" ELSE "endless"]

AtLoopHead(Q) == Q.pc = "transfers" /\ Q.todo_stops = {}

-----------------------------------------------------------------------------
(* Actions *)

ProcessTransfers(q) ==
    /\ qs[q].pc = "transfers"
    /\ \E origin_stop \in qs[q].todo_stops :
          /\ qs' = [qs EXCEPT ![q] = TransferStep(qs[q], transfers, origin_stop)]
          /\ transfers' = TransfersAfterLookup(transfers, origin_stop)
    /\ UNCHANGED <<routes, routes_serving_stop, assertions, hist, build>>

BeginRound(q) ==
    /\ AtLoopHead(qs[q])
    /\ HaveStopsToImprove(qs[q].state)
    /\ qs' = [qs EXCEPT ![q] = BeginRoundStep(qs[q], routes_serving_stop)]
    /\ UNCHANGED <<shared, assertions, hist, build>>

ScanRoute(q) ==
    /\ qs[q].pc = "scan"
    /\ \E p \in qs[q].todo_routes :
          qs' = [qs EXCEPT ![q] = RouteStep(qs[q], routes, p, assertions)]
    /\ UNCHANGED <<shared, assertions, hist, build>>

BeginTransfers(q) ==
    /\ qs[q].pc = "scan"
    /\ qs[q].todo_routes = {}
    /\ qs' = [qs EXCEPT ![q] = BeginTransfersStep(qs[q])]
    /\ UNCHANGED <<shared, assertions, hist, build>>

Return(q) ==
    /\ AtLoopHead(qs[q])
    /\ ~HaveStopsToImprove(qs[q].state)
    /\ qs' = [qs EXCEPT ![q] = ReturnStep(qs[q], routes)]
    /\ UNCHANGED <<shared, assertions, hist, build>>

Next ==
    \/ \E q \in DOMAIN qs : ProcessTransfers(q)
    \/ \E q \in DOMAIN qs : BeginRound(q)
    \/ \E q \in DOMAIN qs : ScanRoute(q)
    \/ \E q \in DOMAIN qs : BeginTransfers(q)
    \/ \E q \in DOMAIN qs : Return(q)

-----------------------------------------------------------------------------
(* Timetables and transfer graphs the queries run on *)

\* a trip over n positions: it reaches its first stop at start, rides hop
\* between stops and waits dwell at each
MakeTrip(n, start, hop, dwell) ==
    [i \in 1..n |-> StopTime(start + (i - 1) * (hop + dwell),
                             start + (i - 1) * (hop + dwell) + dwell)]

HopTimes == {1, 2}

DwellTimes == {0, 1}

TripsOver(n) ==
    {MakeTrip(n, start, hop, dwell) :
         start \in 0..MaxTime, hop \in HopTimes, dwell \in DwellTimes}

\* from_gtfs sorts the trips of a route by their departure from the first stop
TripListsOver(n) ==
    {<<t>> : t \in TripsOver(n)} \cup
    {<<p[1], p[2]>> : p \in {pp \in TripsOver(n) \X TripsOver(n) :
                                /\ pp[1] # pp[2]
                                /\ pp[1][1].departure_time <= pp[2][1].departure_time}}

Route(stops, trips) == [stops |-> stops, trips |-> trips]

Shapes == {<<1, 2, 3>>, <<2, 1, 2>>, <<2, 3, 2, 4>>}

OneRouteTimetables ==
    UNION {{<<Route(sh, tl)>> : tl \in TripListsOver(Len(sh))} : sh \in Shapes}

\* two routes with one trip each: a ride from stop 1 to stop 2, then a ride
\* on from stop 2 or, after a walk, from stop 3
TwoRouteTimetables ==
    {<<Route(<<1, 2>>, <<MakeTrip(2, MaxTime, h1, 0)>>),
       Route(sh2, <<MakeTrip(2, st2, h2, 0)>>)>> :
         h1 \in HopTimes, sh2 \in {<<2, 3>>, <<3, 4>>},
         st2 \in 0..(MaxTime + 4), h2 \in HopTimes}

Timetables == OneRouteTimetables \cup TwoRouteTimetables

\* a builder that would give an entry only to the stops that have a neighbour
BuildTransfersOfConnectedStops(stops, edges) ==
    [s \in {e[1] : e \in edges} |->
        LET RECURSIVE AsVector(_)
            AsVector(es) ==
                IF es = {} THEN <<>>
                ELSE LET e == CHOOSE x \in es : \A y \in es : x[2] <= y[2]
                     IN <<<<e[2], e[3]>>>> \o AsVector(es \ {e})
        IN AsVector({e \in edges : e[1] = s})]

\* Raptor::build_on_foot_transfers: every stop of the schedule gets an entry,
\* transfers[stop], holding its neighbours with the walking duration
BuildOnFootTransfers(stops, edges) ==
    LET Neighbours(s) == {e \in edges : e[1] = s}
        RECURSIVE AsVector(_)
        AsVector(es) ==
            IF es = {} THEN <<>>
            ELSE LET e == CHOOSE x \in es : \A y \in es : x[2] <= y[2]
                 IN <<<<e[2], e[3]>>>> \o AsVector(es \ {e})
    IN [s \in stops |-> AsVector(Neighbours(s))]

\* walking connections are found from the distance between two stops, so they
\* come in both directions with one duration
Symmetric(pairs, d) ==
    {<<p[1], p[2], d>> : p \in pairs} \cup {<<p[2], p[1], d>> : p \in pairs}

TransferDurations == {0, 1, 2, 3}

NearbyPairs == {{}, {<<1, 2>>}, {<<2, 3>>}, {<<1, 2>>, <<2, 3>>}, {<<2, 3>>, <<3, 4>>}}

TransferEdges == {Symmetric(ps, d) : ps \in NearbyPairs, d \in TransferDurations}

Origins == {1, 2}

DepartureTimes == {1}

Init ==
    /\ routes \in Timetables
    /\ routes_serving_stop = BuildRoutesServingStop(routes)
    /\ transfers \in {BuildOnFootTransfers(Stops, es) : es \in TransferEdges}
    /\ assertions \in BOOLEAN
    /\ qs \in {(1 :> NewQuery(o, d, t0)) :
                   o \in Origins, d \in Stops, t0 \in DepartureTimes}
    /\ hist = <<>>
    /\ build = NoBuild

Spec == Init /\ [][Next]_vars

-----------------------------------------------------------------------------
(* What a returned journey reports *)

Terminal(Q) == Q.pc \in {"done", "aborted", "endless"}

\* the instant a leg starts: a ride starts when its trip leaves the leg's
\* from-index, a walk when the rider has reached its first stop
LegDeparture(Q, rts, leg) ==
    IF leg.kind = "pt"
    THEN GetDepartureTime(rts, leg)
    ELSE Q.state.current_round_labels[leg.from_stop].arrival_time

\* the instant a leg ends: a ride ends when its trip reaches the leg's
\* to-index, a walk at the arrival of the label it was built from
LegArrival(Q, rts, leg) ==
    IF leg.kind = "pt"
    THEN GetArrivalTime(rts, leg)
    ELSE Q.state.current_round_labels[leg.to_stop].arrival_time

\* the earliest instant at which each stop can be reached by rides boarded no
\* earlier than the rider's arrival and by walks of the transfer graph
RECURSIVE EarliestArrival(_, _, _)
EarliestArrival(rts, trs, best) ==
    LET walks(v) == UNION {{best[u] + e[2] :
                               e \in {x \in Range(TransfersAt(trs, u)) : x[1] = v}} :
                           u \in DOMAIN best}
        rides(v) == UNION {UNION {{rts[r].trips[t][j].arrival_time :
                                      j \in {k \in 1..Len(rts[r].stops) :
                                                /\ rts[r].stops[k] = v
                                                /\ \E i \in 1..(k - 1) :
                                                      /\ rts[r].stops[i] \in DOMAIN best
                                                      /\ rts[r].trips[t][i].departure_time
                                                             >= best[rts[r].stops[i]]}} :
                                  t \in 1..Len(rts[r].trips)} :
                           r \in 1..Len(rts)}
        cand(v) == walks(v) \cup rides(v)
                       \cup (IF v \in DOMAIN best THEN {best[v]} ELSE {})
        better == [v \in {w \in Stops : cand(w) # {}} |-> Min(cand(v))]
    IN IF better = best THEN best ELSE EarliestArrival(rts, trs, better)

\* the instant at which the returned journey reaches the destination; -1 when
\* the journey is empty and the rider is not already there
JourneyArrival(Q, rts) ==
    IF Q.journey # <<>>
    THEN LegArrival(Q, rts, Q.journey[Len(Q.journey)])
    ELSE IF Q.origin = Q.state.destination THEN Q.departure_time ELSE -1

-----------------------------------------------------------------------------
(* Claims about a query *)

\* C1: the journey route() returns reaches the destination at the minimum
\* arrival instant over all feasible journeys leaving the origin at or after
\* the departure instant (and is empty only when there is none)
C1_MinimumArrival ==
    \A q \in DOMAIN qs :
        qs[q].pc = "done" =>
            LET best == EarliestArrival(routes, transfers,
                                        (qs[q].origin :> qs[q].departure_time))
                dest == qs[q].state.destination
            IN IF dest \in DOMAIN best
               THEN JourneyArrival(qs[q], routes) = best[dest]
               ELSE qs[q].journey = <<>>

\* C3: a query whose destination never receives a label ends by returning an
\* empty journey, without any error
C3_UnreachableReturnsEmpty ==
    \A q \in DOMAIN qs :
        (Terminal(qs[q])
            /\ qs[q].state.destination \notin DOMAIN qs[q].state.current_round_labels)
        => (qs[q].pc = "done" /\ qs[q].journey = <<>>)

\* C4: in a returned journey each leg arrives no later than the next leg
\* departs
C4_ConsecutiveLegs ==
    \A q \in DOMAIN qs :
        qs[q].pc = "done" =>
            \A i \in 1..(Len(qs[q].journey) - 1) :
                LegArrival(qs[q], routes, qs[q].journey[i])
                    <= LegDeparture(qs[q], routes, qs[q].journey[i + 1])

\* C5: at every stop where a vehicle leg of the returned journey ends, the
\* arrival of the leg's trip at the leg's to-index is the stop's current
\* arrival in the round state
C5_ReportedArrival ==
    \A q \in DOMAIN qs :
        qs[q].pc = "done" =>
            \A i \in 1..Len(qs[q].journey) :
                qs[q].journey[i].kind = "pt" =>
                    GetArrivalTime(routes, qs[q].journey[i])
                        = CurrentArrivalTimeToStop(qs[q].state, qs[q].journey[i].to_stop)

\* C6: a query from a stop to itself returns a journey without legs and ends
\* with the destination's arrival equal to the departure instant, its first
\* label still in place
C6_OriginIsDestination ==
    \A q \in DOMAIN qs :
        (Terminal(qs[q]) /\ qs[q].origin = qs[q].state.destination) =>
            /\ qs[q].pc = "done"
            /\ qs[q].journey = <<>>
            /\ CurrentArrivalTimeToStop(qs[q].state, qs[q].origin) = qs[q].departure_time
            /\ qs[q].state.current_round_labels[qs[q].origin]
                   = JourneyInformation(qs[q].departure_time, NoStop, <<>>)

-----------------------------------------------------------------------------
(* A RaptorState driven call by call, as its public interface allows *)

\* the stops, instants and movements a caller passes to try_improve_stop
CallStops == {1, 2, 3}

CallTimes == 0..MaxTime

CallMovements == {<<1, <<>>>>, <<2, <<1, 1>>>>}

Caller(origin, destination, departure_time) ==
    [NewQuery(origin, destination, departure_time) EXCEPT !.pc = "caller",
                                                          !.todo_stops = {}]

Called(op, args, ret, before, after) ==
    [op |-> op, args |-> args, ret |-> ret, before |-> before, after |-> after]

CallTryImproveStop(q) ==
    /\ qs[q].pc = "caller"
    /\ Len(hist) < MaxCalls
    /\ \E stop \in CallStops, new_arrival_time \in CallTimes, m \in CallMovements :
          LET res == TryImproveStop(qs[q].state, stop, new_arrival_time, m[1], m[2])
          IN /\ qs' = [qs EXCEPT ![q].state = res.state]
             /\ hist' = Append(hist, Called("try_improve_stop",
                                            <<stop, new_arrival_time, m[1], m[2]>>,
                                            res.ret, qs[q].state, res.state))
    /\ UNCHANGED <<shared, assertions, build>>

CallNewRound(q) ==
    /\ qs[q].pc = "caller"
    /\ Len(hist) < MaxCalls
    /\ qs' = [qs EXCEPT ![q].state = NewRoundState(@)]
    /\ hist' = Append(hist, Called("new_round", <<>>, TRUE, qs[q].state,
                                   NewRoundState(qs[q].state)))
    /\ UNCHANGED <<shared, assertions, build>>

CallGetAndClearImprovedStops(q) ==
    /\ qs[q].pc = "caller"
    /\ Len(hist) < MaxCalls
    /\ qs' = [qs EXCEPT ![q].state = ClearImprovedStops(@)]
    /\ hist' = Append(hist, Called("get_and_clear_improved_stops", <<>>,
                                   qs[q].state.improved_stops, qs[q].state,
                                   ClearImprovedStops(qs[q].state)))
    /\ UNCHANGED <<shared, assertions, build>>

InitState ==
    /\ routes = <<>>
    /\ routes_serving_stop = BuildRoutesServingStop(routes)
    /\ transfers = BuildOnFootTransfers(Stops, {})
    /\ assertions = TRUE
    /\ qs \in {(1 :> Caller(1, d, t0)) : d \in {1, 2}, t0 \in DepartureTimes}
    /\ hist = <<>>
    /\ build = NoBuild

NextState ==
    \/ \E q \in DOMAIN qs : CallTryImproveStop(q)
    \/ \E q \in DOMAIN qs : CallNewRound(q)
    \/ \E q \in DOMAIN qs : CallGetAndClearImprovedStops(q)

SpecState == InitState /\ [][NextState]_vars

-----------------------------------------------------------------------------
(* Claims about the round state *)

TryImproveCalls == {i \in 1..Len(hist) : hist[i].op = "try_improve_stop"}

\* the condition under which the arrival is to be stored: earlier than the
\* stop's best arrival and than the destination's, an unset one being unbounded
EarlierThanBest(S, stop, arrival) ==
    /\ stop \in DOMAIN S.earliest_arrival_time => arrival < S.earliest_arrival_time[stop]
    /\ S.destination \in DOMAIN S.earliest_arrival_time
           => arrival < S.earliest_arrival_time[S.destination]

\* what a successful call leaves behind
Stored(S, args) ==
    [S EXCEPT !.current_round_labels =
                  (args[1] :> JourneyInformation(args[2], args[3], args[4])) @@ @,
              !.earliest_arrival_time = (args[1] :> args[2]) @@ @,
              !.improved_stops = @ \cup {args[1]}]

C9_ArrivalNeverIncreases ==
    [][\A q \in DOMAIN qs :
          /\ \A s \in DOMAIN qs[q].state.earliest_arrival_time :
                /\ s \in DOMAIN qs'[q].state.earliest_arrival_time
                /\ qs'[q].state.earliest_arrival_time[s]
                       <= qs[q].state.earliest_arrival_time[s]
          /\ \A s \in DOMAIN qs[q].state.current_round_labels :
                /\ s \in DOMAIN qs'[q].state.current_round_labels
                /\ qs'[q].state.current_round_labels[s].arrival_time
                       <= qs[q].state.current_round_labels[s].arrival_time]_vars

\* C10: of two successive calls of try_improve_stop with the same arguments,
\* the second returns false and leaves the state as the first left it
C10_SecondCallChangesNothing ==
    \A i \in TryImproveCalls :
        (i + 1 \in TryImproveCalls /\ hist[i + 1].args = hist[i].args) =>
            /\ hist[i + 1].ret = FALSE
            /\ hist[i + 1].after = hist[i].after

-----------------------------------------------------------------------------
(* Progress of a query *)

\* a running query takes its next step: nothing but the program's own end
\* stops the thread that runs route()
LiveTimetables ==
    TwoRouteTimetables \cup {<<Route(<<1, 2, 3>>, <<t>>)>> : t \in TripsOver(3)}

InitLive == Init /\ routes \in LiveTimetables

FairSpec == InitLive /\ [][Next]_vars /\ WF_vars(Next)

\* C2: the round loop reaches a round after which no stop is marked, and
\* route() leaves the loop
C2_RoundLoopExits ==
    <>(\A q \in DOMAIN qs : qs[q].pc \in {"done", "endless"})

\* every query stops, by returning or by the failure of its assertion
QueryStops == <>(\A q \in DOMAIN qs : Terminal(qs[q]))

-----------------------------------------------------------------------------
(* Queries run side by side on one Raptor *)

\* the steps a query can take next, whatever else runs
Succ(Q, rts, trs, rss, with_assertions) ==
    (IF Q.pc = "transfers"
     THEN {TransferStep(Q, trs, u) : u \in Q.todo_stops} ELSE {})
    \cup (IF AtLoopHead(Q) /\ HaveStopsToImprove(Q.state)
          THEN {BeginRoundStep(Q, rss)} ELSE {})
    \cup (IF Q.pc = "scan"
          THEN {RouteStep(Q, rts, p, with_assertions) : p \in Q.todo_routes} ELSE {})
    \cup (IF Q.pc = "scan" /\ Q.todo_routes = {}
          THEN {BeginTransfersStep(Q)} ELSE {})
    \cup (IF AtLoopHead(Q) /\ ~HaveStopsToImprove(Q.state)
          THEN {ReturnStep(Q, rts)} ELSE {})

\* the ways a query can end when nothing else runs
RECURSIVE RunAlone(_, _, _, _, _)
RunAlone(Qs, rts, trs, rss, with_assertions) ==
    LET further == {Q \in Qs : Terminal(Q)}
                       \cup UNION {Succ(Q, rts, trs, rss, with_assertions) :
                                       Q \in {R \in Qs : ~Terminal(R)}}
    IN IF further = Qs THEN Qs
       ELSE RunAlone(further, rts, trs, rss, with_assertions)

ConcTimetables ==
    {tt \in TwoRouteTimetables :
        \A r \in 1..2 : tt[r].trips[1][2].arrival_time
                              = tt[r].trips[1][1].departure_time + 1}

InitConc ==
    /\ routes \in ConcTimetables
    /\ routes_serving_stop = BuildRoutesServingStop(routes)
    /\ transfers = BuildOnFootTransfers(Stops, Symmetric({<<2, 3>>}, 1))
    /\ assertions \in BOOLEAN
    /\ qs \in {(1 :> NewQuery(1, d1, t0)) @@ (2 :> NewQuery(o2, d2, t0)) :
                   d1 \in {3, 4}, o2 \in Origins, d2 \in {3, 4}, t0 \in DepartureTimes}
    /\ hist = <<>>
    /\ build = NoBuild

SpecConc == InitConc /\ [][Next]_vars

-----------------------------------------------------------------------------
(* Reachable cases of the claims that hold *)

C9_Witness ==
    \E i \in TryImproveCalls :
        /\ hist[i].ret
        /\ hist[i].args[1] \in DOMAIN hist[i].before.earliest_arrival_time
        /\ \E j \in 1..(i - 1) : hist[j].op = "new_round"

\* a call that stored its arrival has been repeated with the same arguments
C10_Witness ==
    \E i \in TryImproveCalls :
        /\ i + 1 \in TryImproveCalls
        /\ hist[i + 1].args = hist[i].args
        /\ hist[i].ret

-----------------------------------------------------------------------------
(* The round state: new_round *)

\* C11: new_round makes the previous-round labels equal to the current-round
\* labels as they stood before the call and adds one to the round counter; the
\* current-round labels and the marked set stay as they were
C11_NewRoundFrame ==
    \A i \in 1..Len(hist) :
        hist[i].op = "new_round" =>
            /\ hist[i].after.previous_round_labels = hist[i].before.current_round_labels
            /\ hist[i].after.n_round = hist[i].before.n_round + 1
            /\ hist[i].after.current_round_labels = hist[i].before.current_round_labels
            /\ hist[i].after.improved_stops = hist[i].before.improved_stops

\* new_round has been called when the current labels had moved on from the
\* previous ones and stops were marked
C11_Witness ==
    \E i \in 1..Len(hist) :
        /\ hist[i].op = "new_round"
        /\ hist[i].before.current_round_labels # hist[i].before.previous_round_labels
        /\ hist[i].before.n_round >= 1
        /\ hist[i].before.improved_stops # {}

-----------------------------------------------------------------------------
(* A later trip that arrives first *)

\* route R over stops X = 1 and Y = 2 with two trips: T1 leaves X at the
\* instant of the query and T2 later, and T2 reaches Y before T1.  With the
\* departure instant 1 standing for 09:00 and a unit of five minutes,
\* later = 4, ride = 1, behind = 1 is T1 (09:00, 09:30), T2 (09:20, 09:25).
OvertakenRoute(t0, later, ride, behind) ==
    Route(<<1, 2>>,
          <<<<StopTime(t0, t0),
              StopTime(t0 + later + ride + behind, t0 + later + ride + behind)>>,
            <<StopTime(t0 + later, t0 + later),
              StopTime(t0 + later + ride, t0 + later + ride)>>>>)

InitOvertaking ==
    /\ \E t0 \in DepartureTimes, later \in 1..4, ride \in 1..2, behind \in 1..2 :
          /\ routes = <<OvertakenRoute(t0, later, ride, behind)>>
          /\ qs = (1 :> NewQuery(1, 2, t0))
    /\ routes_serving_stop = BuildRoutesServingStop(routes)
    /\ transfers \in {BuildOnFootTransfers(Stops, Symmetric(ps, d)) :
                          ps \in {{}, {<<2, 3>>}, {<<3, 4>>}}, d \in TransferDurations}
    /\ assertions \in BOOLEAN
    /\ hist = <<>>
    /\ build = NoBuild

SpecOvertaking == InitOvertaking /\ [][Next]_vars

\* C12: the query from X to Y at the instant T1 leaves X ends with the arrival
\* at Y equal to T2's arrival there, reached on T2
C12_ArrivesOnLaterTrip ==
    \A q \in DOMAIN qs :
        Terminal(qs[q]) =>
            /\ qs[q].pc = "done"
            /\ CurrentArrivalTimeToStop(qs[q].state, 2) = routes[1].trips[2][2].arrival_time
            /\ Len(qs[q].journey) = 1
            /\ qs[q].journey[1].kind = "pt"
            /\ qs[q].journey[1].trip = 2
            /\ GetArrivalTime(routes, qs[q].journey[1]) = routes[1].trips[2][2].arrival_time

\* the 09:00 / 09:20 / 09:25 / 09:30 timetable has been queried and the query
\* has returned
C12_Witness ==
    /\ qs[1].pc = "done"
    /\ qs[1].departure_time = 1
    /\ routes[1].trips[1][1].departure_time = 1
    /\ routes[1].trips[1][2].arrival_time = 7
    /\ routes[1].trips[2][1].departure_time = 5
    /\ routes[1].trips[2][2].arrival_time = 6
    /\ qs[1].journey # <<>>

-----------------------------------------------------------------------------
(***************************************************************************)
(* Walking times: LinearWalkTimeCalculator                                 *)
(*                                                                         *)
(* Distances are integers counted in quarters of a kilometre, speeds are   *)
(* whole km/h and the time scaling factor is counted in halves, so that    *)
(* the factors 1 and 1.5 are 2 and 3.  With these inputs 3600 * distance / *)
(* walking_speed is exact in double arithmetic for the speeds 4 and 5.     *)
(***************************************************************************)

\* std::ceil of the quotient a / b, for a >= 0 and b > 0
Ceil(a, b) == (a + b - 1) \div b

\* the constructor: only the walking speed is examined
LinearWalkTimeCalculator(walking_speed_km_h, time_scaling_factor) ==
    IF walking_speed_km_h <= 0
    THEN [outcome |-> "invalid_argument"]
    ELSE [outcome |-> "constructed",
          walking_speed |-> walking_speed_km_h,
          scaling_factor |-> time_scaling_factor]

\* calculate_walking_time(distance), in seconds; 3600 * (distance / 4) is
\* 900 * distance
CalculateWalkingTime(calc, distance) ==
    LET time == Ceil(900 * distance, calc.walking_speed)
    IN 2 * time

Speeds == {-5, 0, 4, 5}

ScalingFactors == {-2, 0, 2, 3}

WalkDistances == {0, 1, 3, 20}

\* a caller constructs a calculator
Construct ==
    /\ build.kind = "walk"
    /\ build.calc = <<>>
    /\ \E speed \in Speeds, scale \in ScalingFactors :
          build' = [build EXCEPT
                        !.calc = <<LinearWalkTimeCalculator(speed, scale)>>,
                        !.args = <<speed, scale>>]
    /\ UNCHANGED <<shared, assertions, qs, hist>>

\* a caller asks a constructed calculator for the time of a walk
CallCalculateWalkingTime ==
    /\ build.kind = "walk"
    /\ build.calc # <<>>
    /\ build.calc[1].outcome = "constructed"
    /\ Len(hist) < MaxCalls
    /\ \E distance \in WalkDistances :
          hist' = Append(hist, [op |-> "calculate_walking_time",
                                args |-> <<distance>>,
                                ret |-> CalculateWalkingTime(build.calc[1], distance)])
    /\ UNCHANGED <<shared, assertions, qs, build>>

InitWalk ==
    /\ routes = <<>>
    /\ routes_serving_stop = <<>>
    /\ transfers = <<>>
    /\ assertions = TRUE
    /\ qs = <<>>
    /\ hist = <<>>
    /\ build = [kind |-> "walk", calc |-> <<>>, args |-> <<>>]

NextWalk ==
    \/ Construct
    \/ CallCalculateWalkingTime

SpecWalk == InitWalk /\ [][NextWalk]_vars

\* C17: for a distance d >= 0, a speed > 0 and a scale > 0 the walking time is
\* ceil(3600 * d / speed) * scale seconds (scale counted in halves here, and
\* only the products that are whole seconds are compared): at scale 1 a walk
\* of 5 km at 5 km/h takes 3600 s, at scale 1.5 it takes 5400 s
C17_WalkingTimeIsScaled ==
    \A i \in 1..Len(hist) :
        LET speed == build.args[1]
            scale == build.args[2]
            seconds == Ceil(900 * hist[i].args[1], speed)
        IN (/\ hist[i].op = "calculate_walking_time"
            /\ scale > 0
            /\ (seconds * scale) % 2 = 0)
               => 2 * hist[i].ret = seconds * scale

\* C18: constructing the calculator fails with invalid_argument exactly when
\* the speed or the scale is not positive
C18_RejectsNonPositive ==
    build.kind = "walk" /\ build.calc # <<>> =>
        (build.calc[1].outcome = "invalid_argument"
            <=> (build.args[1] <= 0 \/ build.args[2] <= 0))

-----------------------------------------------------------------------------
(***************************************************************************)
(* The transfer graph: StopKDTree and TransferManager                      *)
(*                                                                         *)
(* The stops lie on a straight line; a coordinate is a position on it in   *)
(* quarters of a kilometre, already cartesian.  A radius in kilometres is  *)
(* counted in quarters as well, a squared distance in sixteenths of a      *)
(* square kilometre.  Durations are seconds.                               *)
(***************************************************************************)

MaxPos == 3

\* the deque of stops the manager and the index are built over
StopDeque == <<1, 2, 3>>

NoStation == 0

Stations == {1, 2}

Distance(coordinates, a, b) ==
    IF coordinates[a] >= coordinates[b]
    THEN coordinates[a] - coordinates[b]
    ELSE coordinates[b] - coordinates[a]

\* std::sqrt, on the arguments whose root is a whole number
Sqrt(x) == CHOOSE r \in 0..x : r * r = x

\* nanoflann's radiusSearch under L2_Simple_Adaptor: the matches are the
\* points whose squared distance to the query point is below the radius
\* given, nearest first.  The radius arrives in halves (Sqrt of quarters):
\* n * n / 16 < radius / 2
RadiusSearch(coordinates, point, radius) ==
    LET SquaredDistance(s) == (coordinates[s] - point) * (coordinates[s] - point)
        matches == {s \in DOMAIN coordinates : SquaredDistance(s) < 8 * radius}
        RECURSIVE Sorted(_)
        Sorted(ms) ==
            IF ms = {} THEN <<>>
            ELSE LET s == CHOOSE x \in ms : \A y \in ms :
                              \/ SquaredDistance(x) < SquaredDistance(y)
                              \/ SquaredDistance(x) = SquaredDistance(y) /\ x <= y
                 IN <<<<s, SquaredDistance(s)>>>> \o Sorted(ms \ {s})
    IN Sorted(matches)

\* StopKDTree::stops_in_radius(cartesian_coords, radius_km)
StopsInRadiusOfPoint(coordinates, cartesian_coords, radius_km) ==
    RadiusSearch(coordinates, cartesian_coords, Sqrt(radius_km))

\* StopKDTree::convert_flann_results
ConvertFlannResults(flann_results) ==
    [i \in 1..Len(flann_results) |->
        [stop |-> flann_results[i][1], distance_km |-> Sqrt(flann_results[i][2])]]

\* StopKDTree::stops_in_radius(latitude, longitude, radius_km): every match is
\* returned, the stop standing on the coordinates included
StopsInRadius(coordinates, position, radius_km) ==
    ConvertFlannResults(StopsInRadiusOfPoint(coordinates, position, radius_km))

\* Station::get_stops of the parent station
StopsInStation(stops, parent_station, station) ==
    SelectSeq(stops, LAMBDA s : parent_station[s] = station)

\* unordered_map::emplace: an existing entry is kept
Emplace(map, key, value) ==
    IF key \in DOMAIN map THEN map ELSE map @@ (key :> value)

\* TransferManager::build_same_station_transfers
BuildSameStationTransfers(trs, stops, parent_station) ==
    LET RECURSIVE Loop(_, _)
        Loop(t, i) ==
            IF i > Len(stops) THEN t
            ELSE LET from_stop == stops[i]
                 IN IF parent_station[from_stop] = NoStation THEN Loop(t, i + 1)
                    ELSE LET stops_in_station ==
                                 StopsInStation(stops, parent_station, parent_station[from_stop])
                             others == SelectSeq(stops_in_station, LAMBDA o : o # from_stop)
                             transfers_with_times ==
                                 [j \in 1..Len(others) |-> <<others[j], 60>>]
                         IN Loop(Emplace(t, from_stop, transfers_with_times), i + 1)
    IN Loop(trs, 1)

\* a transfer that counts the exit duration on both ends of the walk
OnFootTransferExitingTwice(calc, exit_station_duration, to_stop) ==
    <<to_stop.stop,
      CalculateWalkingTime(calc, to_stop.distance_km) + 2 * exit_station_duration>>

\* the transfer emitted for a nearby stop
OnFootTransfer(calc, exit_station_duration, to_stop) ==
    LET walk_time == CalculateWalkingTime(calc, to_stop.distance_km)
        transfer_time == walk_time + exit_station_duration
    IN <<to_stop.stop, transfer_time>>

\* TransferManager::build_on_foot_transfers
TransferManagerBuildOnFootTransfers(trs, stops, coordinates, calc, max_radius_km, exit_station_duration) ==
    LET RECURSIVE Insert(_, _, _)
        Insert(existing_transfers, nearby_stops, j) ==
            IF j > Len(nearby_stops) THEN existing_transfers
            ELSE LET to_stop == nearby_stops[j]
                     no_existing_transfer ==
                         \A k \in 1..Len(existing_transfers) :
                             existing_transfers[k][1] # to_stop.stop
                 IN Insert(IF no_existing_transfer
                           THEN Append(existing_transfers,
                                       OnFootTransfer(calc, exit_station_duration, to_stop))
                           ELSE existing_transfers,
                           nearby_stops, j + 1)
        RECURSIVE Loop(_, _)
        Loop(t, i) ==
            IF i > Len(stops) THEN t
            ELSE LET origin_stop == stops[i]
                     nearby_stops ==
                         StopsInRadius(coordinates, coordinates[origin_stop], max_radius_km)
                     after == Insert(TransfersAt(t, origin_stop), nearby_stops, 1)
                 IN Loop([s \in DOMAIN t \cup {origin_stop} |->
                              IF s = origin_stop THEN after ELSE t[s]], i + 1)
    IN Loop(trs, 1)

\* build_transfers, first half
BuildSameStation ==
    /\ build.kind = "transfers"
    /\ build.pc = "constructing"
    /\ transfers' = BuildSameStationTransfers(transfers, build.stops, build.parent_station)
    /\ build' = [build EXCEPT !.pc = "same_station_built"]
    /\ UNCHANGED <<routes, routes_serving_stop, assertions, qs, hist>>

\* build_transfers, second half: the constructor returns
BuildOnFoot ==
    /\ build.kind = "transfers"
    /\ build.pc = "same_station_built"
    /\ transfers' = TransferManagerBuildOnFootTransfers(
                        transfers, build.stops, build.coordinates, build.calc,
                        build.max_radius_km, build.exit_station_duration)
    /\ build' = [build EXCEPT !.pc = "built"]
    /\ UNCHANGED <<routes, routes_serving_stop, assertions, qs, hist>>

MaxRadii == {0, 1, 4}

ExitStationDurations == {0, 120}

InStationTransferDurations == {60, 90}

InitTransfers ==
    /\ routes = <<>>
    /\ routes_serving_stop = <<>>
    /\ transfers = <<>>
    /\ assertions = TRUE
    /\ qs = <<>>
    /\ hist = <<>>
    /\ \E coordinates \in [Range(StopDeque) -> 0..MaxPos],
          parent_station \in [Range(StopDeque) -> {NoStation} \cup Stations],
          radius \in MaxRadii, exit \in ExitStationDurations,
          in_station \in InStationTransferDurations, speed \in {4, 5} :
          build = [kind |-> "transfers", pc |-> "constructing",
                   stops |-> StopDeque,
                   coordinates |-> coordinates,
                   parent_station |-> parent_station,
                   calc |-> LinearWalkTimeCalculator(speed, 2),
                   max_radius_km |-> radius,
                   exit_station_duration |-> exit,
                   in_station_transfer_duration |-> in_station]

NextTransfers ==
    \/ BuildSameStation
    \/ BuildOnFoot

SpecTransfers == InitTransfers /\ [][NextTransfers]_vars

\* TransferManager::get_transfers_from_stop of the built manager
GetTransfersFromStop(stop) == TransfersAt(transfers, stop)

Built == build.kind = "transfers" /\ build.pc = "built"

SameStation(u, v) ==
    /\ build.parent_station[u] # NoStation
    /\ build.parent_station[u] = build.parent_station[v]

\* the positions of the transfers from u that lead to v
EdgesTo(u, v) ==
    {k \in 1..Len(GetTransfersFromStop(u)) : GetTransfersFromStop(u)[k][1] = v}

\* C13: two distinct stops of one station have exactly one transfer to each
\* other, and its duration is the configured in_station_transfer_duration,
\* whether or not they are also neighbours in space
C13_SameStationTransfers ==
    Built =>
        \A u, v \in Range(build.stops) :
            u # v /\ SameStation(u, v) =>
                /\ Cardinality(EdgesTo(u, v)) = 1
                /\ \A k \in EdgesTo(u, v) :
                       GetTransfersFromStop(u)[k][2] = build.in_station_transfer_duration

\* C14: no stop has a transfer to itself, and when two stops stand on the same
\* coordinates in one station, with no other stop in that station or within
\* the radius, the transfers of the first are exactly [(second, 60 s)]
C14_NoSelfEdge ==
    Built =>
        /\ \A u \in Range(build.stops) : EdgesTo(u, u) = {}
        /\ \A s1, s2 \in Range(build.stops) :
               (/\ s1 # s2
                /\ SameStation(s1, s2)
                /\ build.coordinates[s1] = build.coordinates[s2]
                /\ \A o \in Range(build.stops) \ {s1, s2} :
                       /\ ~SameStation(s1, o)
                       /\ Distance(build.coordinates, s1, o) > build.max_radius_km)
                   => GetTransfersFromStop(s1) = <<<<s2, 60>>>>

\* C15: a transfer to a stop outside the station of its origin exists only if
\* the two stops are at most max_radius_km apart, and with a radius of 0 all
\* transfers are same-station transfers
C15_WithinRadius ==
    Built =>
        \A u \in Range(build.stops) :
            \A k \in 1..Len(GetTransfersFromStop(u)) :
                LET v == GetTransfersFromStop(u)[k][1]
                IN ~SameStation(u, v) =>
                       /\ Distance(build.coordinates, u, v) <= build.max_radius_km
                       /\ build.max_radius_km # 0

\* the transfers from u that build_on_foot_transfers has appended
OnFootEdges(u) ==
    LET before == BuildSameStationTransfers(<<>>, build.stops, build.parent_station)
    IN (Len(TransfersAt(before, u)) + 1)..Len(GetTransfersFromStop(u))

\* C16: every transfer emitted for a neighbour in space lasts the walking
\* time of the distance between the two stops plus exit_station_duration,
\* counted once
C16_WalkPlusExitOnce ==
    Built =>
        \A u \in Range(build.stops) :
            \A k \in OnFootEdges(u) :
                LET edge == GetTransfersFromStop(u)[k]
                IN edge[2] = CalculateWalkingTime(build.calc,
                                 Distance(build.coordinates, u, edge[1]))
                             + build.exit_station_duration

C16_Witness ==
    /\ Built
    /\ build.exit_station_duration = 120
    /\ \E u \in Range(build.stops) : \E k \in OnFootEdges(u) :
           /\ Distance(build.coordinates, u, GetTransfersFromStop(u)[k][1]) = 2
           /\ GetTransfersFromStop(u)[k][2] > 120

-----------------------------------------------------------------------------
(***************************************************************************)
(* Services: from_gtfs(calendars, calendar_dates, from_date, to_date)      *)
(*                                                                         *)
(* A date is its day number, counted from a day whose weekday has the      *)
(* encoding 0 (Sunday); the feed's dates lie in 0..MaxDate.                *)
(***************************************************************************)

MaxDate == 8

Dates == 0..MaxDate

\* an absent optional date
NoDate == -1

\* std::chrono::weekday of a date, by its encoding (Sunday is 0)
Weekday(date) == date % 7

\* std::chrono's weekday - weekday: the days d in 0..6 with y + d = x
WeekdayDifference(x, y) == ((x - y) + 7) % 7

\* all_weekdays_in_period
AllWeekdaysInPeriod(start, end, weekday) ==
    LET days_until_next_weekday == WeekdayDifference(Weekday(start), weekday)
        RECURSIVE While(_)
        While(current_date) ==
            IF current_date <= end
            THEN <<current_date>> \o While(current_date + 7)
            ELSE <<>>
    IN While(start + days_until_next_weekday)

\* calendar_active_weekdays: Monday first, Sunday last
CalendarActiveWeekdays(calendar) ==
    SelectSeq(<<1, 2, 3, 4, 5, 6, 0>>, LAMBDA weekday : weekday \in calendar.available)

\* the limits of from_gtfs: an absent limit lies outside all the dates of the feed
LimitStart(from_date) == IF from_date # NoDate THEN from_date ELSE 0

LimitEnd(to_date) == IF to_date # NoDate THEN to_date ELSE MaxDate

Max2(a, b) == IF a >= b THEN a ELSE b

\* the lambda parse_calendar, on the map built so far
ParseCalendarRecord(service_dates_map, calendar, limit_start, limit_end) ==
    LET start_date == Max2(calendar.start_date, limit_start)
        end_date == Min2(calendar.end_date, limit_end)
        active_weekdays == CalendarActiveWeekdays(calendar)
        RECURSIVE Dates_(_)
        Dates_(k) ==
            IF k > Len(active_weekdays) THEN <<>>
            ELSE AllWeekdaysInPeriod(start_date, end_date, active_weekdays[k]) \o Dates_(k + 1)
    IN IF calendar.service_id \in DOMAIN service_dates_map
       THEN [outcome |-> "runtime_error", map |-> service_dates_map]
       ELSE [outcome |-> "ok",
             map |-> service_dates_map @@ (calendar.service_id :> Dates_(1))]

\* std::vector::erase at the first position holding the date
EraseFirst(days, date) ==
    LET pos == FindFirst(days, date)
    IN [k \in 1..(Len(days) - 1) |-> IF k < pos THEN days[k] ELSE days[k + 1]]

\* the lambda parse_exception, on the map built so far
ParseExceptionRecord(service_dates_map, calendar_date, limit_start, limit_end) ==
    LET exception_date == calendar_date.date
    IN IF ~(exception_date >= limit_start /\ exception_date <= limit_end)
       THEN [outcome |-> "ok", map |-> service_dates_map]
       ELSE IF calendar_date.service_id \notin DOMAIN service_dates_map
       THEN [outcome |-> "runtime_error", map |-> service_dates_map]
       ELSE LET active_days == service_dates_map[calendar_date.service_id]
            IN IF calendar_date.exception_type = "Added"
               THEN [outcome |-> "ok",
                     map |-> [service_dates_map EXCEPT
                                  ![calendar_date.service_id] = Append(active_days, exception_date)]]
               ELSE IF \E k \in 1..Len(active_days) : active_days[k] = exception_date
               THEN [outcome |-> "ok",
                     map |-> [service_dates_map EXCEPT
                                  ![calendar_date.service_id] = EraseFirst(active_days, exception_date)]]
               ELSE [outcome |-> "runtime_error", map |-> service_dates_map]

\* for_each(calendars, parse_calendar): the next record
ParseCalendar ==
    /\ build.kind = "services"
    /\ build.pc = "calendars"
    /\ build.next <= Len(build.calendars)
    /\ LET r == ParseCalendarRecord(build.service_dates_map, build.calendars[build.next],
                                    LimitStart(build.from_date), LimitEnd(build.to_date))
       IN build' = [build EXCEPT
                        !.service_dates_map = r.map,
                        !.next = IF r.outcome = "ok" /\ build.next = Len(build.calendars)
                                 THEN 1 ELSE build.next + 1,
                        !.pc = IF r.outcome # "ok" THEN "runtime_error"
                               ELSE IF build.next = Len(build.calendars) THEN "calendar_dates"
                               ELSE "calendars"]
    /\ UNCHANGED <<shared, assertions, qs, hist>>

\* for_each(calendar_dates, parse_exception): the next record
ParseException ==
    /\ build.kind = "services"
    /\ build.pc = "calendar_dates"
    /\ build.next <= Len(build.calendar_dates)
    /\ LET r == ParseExceptionRecord(build.service_dates_map, build.calendar_dates[build.next],
                                     LimitStart(build.from_date), LimitEnd(build.to_date))
       IN build' = [build EXCEPT
                        !.service_dates_map = r.map,
                        !.next = build.next + 1,
                        !.pc = IF r.outcome # "ok" THEN "runtime_error" ELSE "calendar_dates"]
    /\ UNCHANGED <<shared, assertions, qs, hist>>

\* the services are made of the map and returned
ReturnServices ==
    /\ build.kind = "services"
    /\ build.pc = "calendar_dates"
    /\ build.next > Len(build.calendar_dates)
    /\ build' = [build EXCEPT
                     !.pc = "returned",
                     !.services = [id \in DOMAIN build.service_dates_map |->
                                      [gtfs_id |-> id,
                                       active_days |-> build.service_dates_map[id]]]]
    /\ UNCHANGED <<shared, assertions, qs, hist>>

ServiceIds == {1, 2}

AvailableWeekdays == {{}, {1}, {4}, {0, 3}, 0..6}

CalendarItems ==
    {[service_id |-> 1, start_date |-> s, end_date |-> e, available |-> w] :
         s \in Dates, e \in Dates, w \in AvailableWeekdays}

CalendarDates ==
    {[service_id |-> id, date |-> d, exception_type |-> x] :
         id \in ServiceIds, d \in {1, 4, MaxDate}, x \in {"Added", "Removed"}}

FromDates == {NoDate, 2, 4}

ToDates == {NoDate, 4, 6}

InitServices ==
    /\ routes = <<>>
    /\ routes_serving_stop = <<>>
    /\ transfers = <<>>
    /\ assertions = TRUE
    /\ qs = <<>>
    /\ hist = <<>>
    /\ \E c \in {c \in CalendarItems : c.start_date <= c.end_date},
          more \in {<<>>} \cup {<<id>> : id \in ServiceIds},
          x \in {<<>>} \cup {<<cd>> : cd \in CalendarDates},
          from_date \in FromDates, to_date \in ToDates :
          build = [kind |-> "services", pc |-> "calendars", next |-> 1,
                   calendars |-> <<c>> \o [k \in 1..Len(more) |->
                                              [c EXCEPT !.service_id = more[k]]],
                   calendar_dates |-> x,
                   from_date |-> from_date, to_date |-> to_date,
                   service_dates_map |-> <<>>,
                   services |-> <<>>]

NextServices ==
    \/ ParseCalendar
    \/ ParseException
    \/ ReturnServices

SpecServices == InitServices /\ [][NextServices]_vars

\* the dates of the window of a calendar record that fall on its weekdays
WindowDates(calendar, from_date, to_date) ==
    {d \in Dates :
        /\ calendar.start_date <= d /\ d <= calendar.end_date
        /\ from_date # NoDate => from_date <= d
        /\ to_date # NoDate => d <= to_date
        /\ Weekday(d) \in calendar.available}

\* C19: once the calendar records are read and before any exception is
\* applied, the dates of each record's service are exactly the dates of the
\* window [max(start, from_date), min(end, to_date)] that fall on an enabled
\* weekday
C19_DatesOfEnabledWeekdays ==
    (build.kind = "services" /\ build.pc = "calendar_dates" /\ build.next = 1) =>
        \A k \in 1..Len(build.calendars) :
            Range(build.service_dates_map[build.calendars[k].service_id])
                = WindowDates(build.calendars[k], build.from_date, build.to_date)

-----------------------------------------------------------------------------
(***************************************************************************)
(* Routes of a feed: group_trips_by_route and from_gtfs(trips, ...)        *)
(*                                                                         *)
(* size_t is three bits wide here.  std::hash<std::string> is fixed by the *)
(* implementation; it is a table from the ids of the feed to hash values,  *)
(* chosen when the feed is read.                                           *)
(***************************************************************************)

\* the number of values of size_t
SizeT == 8

\* 0x9e3779b9 in size_t
Golden == 1

\* the bitwise exclusive or of two size_t values
Xor(a, b) ==
    LET Bit(x, k) == (x \div (2 ^ k)) % 2
    IN    ((Bit(a, 0) + Bit(b, 0)) % 2)
        + ((Bit(a, 1) + Bit(b, 1)) % 2) * 2
        + ((Bit(a, 2) + Bit(b, 2)) % 2) * 4

\* boost::hash_combine: seed ^= v + 0x9e3779b9 + (seed << 6) + (seed >> 2)
HashCombine(seed, v) ==
    Xor(seed, (v + Golden + ((seed * 64) % SizeT) + (seed \div 4)) % SizeT)

\* std::hash of a vector of stops
HashOfStops(stop_hash, stops) ==
    LET RECURSIVE Loop(_, _)
        Loop(seed, k) ==
            IF k > Len(stops) THEN seed
            ELSE Loop(HashCombine(seed, stop_hash[stops[k]]), k + 1)
    IN Loop(0, 1)

\* Route::hash(stops, gtfs_route_id)
RouteHash(stop_hash, route_hash, stops, gtfs_route_id) ==
    HashCombine(HashCombine(0, HashOfStops(stop_hash, stops)), route_hash[gtfs_route_id])

\* the stops of a trip, in order
TripStops(trip) == [k \in 1..Len(trip.stop_times) |-> trip.stop_times[k].stop]

\* group_trips_by_route: route_map[hash].emplace_back(trip), in the order of
\* the trips
GroupTripsByRoute(trips, trip_id_to_route_id, stop_hash, route_hash) ==
    LET RECURSIVE Loop(_, _)
        Loop(route_map, k) ==
            IF k > Len(trips) THEN route_map
            ELSE LET trip == trips[k]
                     route_id == trip_id_to_route_id[trip.trip_gtfs_id]
                     hash == RouteHash(stop_hash, route_hash, TripStops(trip), route_id)
                 IN Loop([h \in DOMAIN route_map \cup {hash} |->
                              IF h = hash
                              THEN Append(TransfersAt(route_map, h), trip)
                              ELSE route_map[h]], k + 1)
    IN Loop(<<>>, 1)

\* std::ranges::sort by the departure from the first stop: the outcomes, the
\* order of trips with equal keys being left open
SortedByFirstDeparture(route_trips) ==
    LET n == Len(route_trips)
        Key(trip) == trip.stop_times[1].departure_time
        perms == {p \in [1..n -> 1..n] : \A a, b \in 1..n : a # b => p[a] # p[b]}
    IN {[k \in 1..n |-> route_trips[p[k]]] :
            p \in {q \in perms : \A a \in 1..(n - 1) :
                       Key(route_trips[q[a]]) <= Key(route_trips[q[a + 1]])}}

\* group_trips_by_route(std::move(trips), trip_id_to_route_id)
GroupTrips ==
    /\ build.kind = "routes"
    /\ build.pc = "grouping"
    /\ build' = [build EXCEPT
                     !.pc = "creating",
                     !.route_map = GroupTripsByRoute(build.trips, build.trip_id_to_route_id,
                                                     build.stop_hash, build.route_hash)]
    /\ UNCHANGED <<shared, assertions, qs, hist>>

\* the loop of from_gtfs over the values of route_map: the next Route object
CreateRoute ==
    /\ build.kind = "routes"
    /\ build.pc = "creating"
    /\ DOMAIN build.route_map # {}
    /\ \E hash \in DOMAIN build.route_map :
          \E route_trips \in SortedByFirstDeparture(build.route_map[hash]) :
              LET route_gtfs_id ==
                      build.trip_id_to_route_id[build.route_map[hash][1].trip_gtfs_id]
              IN build' = [build EXCEPT
                               !.route_map = [h \in DOMAIN build.route_map \ {hash} |->
                                                 build.route_map[h]],
                               !.routes = Append(build.routes,
                                                 [trips |-> route_trips,
                                                  gtfs_id |-> route_gtfs_id])]
    /\ UNCHANGED <<shared, assertions, qs, hist>>

\* from_gtfs returns the routes
ReturnRoutes ==
    /\ build.kind = "routes"
    /\ build.pc = "creating"
    /\ DOMAIN build.route_map = {}
    /\ build' = [build EXCEPT !.pc = "returned"]
    /\ UNCHANGED <<shared, assertions, qs, hist>>

RouteIds == {"r1", "r2"}

StringHashes == {1, 2, 5}

FeedShapes == {<<1, 2>>, <<2, 1>>, <<1, 2, 3>>}

\* a trip of the feed on one service day
FeedTrip(id, stops, start, hop) ==
    [trip_gtfs_id |-> id,
     stop_times |-> [k \in 1..Len(stops) |->
                        [stop |-> stops[k],
                         arrival_time |-> start + (k - 1) * hop,
                         departure_time |-> start + (k - 1) * hop]]]

FeedTrips(id) ==
    {FeedTrip(id, stops, sh[1], sh[2]) :
         stops \in FeedShapes, sh \in {<<0, 2>>, <<1, 1>>}}

InitRoutes ==
    /\ routes = <<>>
    /\ routes_serving_stop = <<>>
    /\ transfers = <<>>
    /\ assertions = TRUE
    /\ qs = <<>>
    /\ hist = <<>>
    /\ \E t1 \in FeedTrips(1), t2 \in FeedTrips(2),
          ids \in [{1, 2} -> RouteIds],
          stop_hash \in [{1, 2, 3} -> StringHashes],
          route_hash \in [RouteIds -> StringHashes] :
          build = [kind |-> "routes", pc |-> "grouping",
                   trips |-> <<t1, t2>>,
                   trip_id_to_route_id |-> ids,
                   stop_hash |-> stop_hash,
                   route_hash |-> route_hash,
                   route_map |-> <<>>,
                   routes |-> <<>>]

NextRoutes ==
    \/ GroupTrips
    \/ CreateRoute
    \/ ReturnRoutes

SpecRoutes == InitRoutes /\ [][NextRoutes]_vars

\* C20: every route built holds only trips with one stop sequence and with
\* the feed route id of the route, so that two trips of one feed route with
\* different stop sequences are in different routes
C20_OneSequencePerRoute ==
    (build.kind = "routes" /\ build.pc = "returned") =>
        \A r \in 1..Len(build.routes) :
            \A k \in 1..Len(build.routes[r].trips) :
                LET trip == build.routes[r].trips[k]
                IN /\ TripStops(trip) = TripStops(build.routes[r].trips[1])
                   /\ build.trip_id_to_route_id[trip.trip_gtfs_id] = build.routes[r].gtfs_id

\* C21: in every route built, at every position of the stop sequence the
\* departures of the route's trips, taken in the route's trip order, never
\* decrease
C21_MonotoneDepartures ==
    (build.kind = "routes" /\ build.pc = "returned") =>
        \A r \in 1..Len(build.routes) :
            LET trips == build.routes[r].trips
            IN \A k \in 1..(Len(trips) - 1) :
                   \A p \in 1..Min2(Len(trips[k].stop_times), Len(trips[k + 1].stop_times)) :
                       trips[k].stop_times[p].departure_time
                           <= trips[k + 1].stop_times[p].departure_time

-----------------------------------------------------------------------------
(***************************************************************************)
(* Stops and stations of a feed: from_gtfs(gtfs_stops) and StopManager     *)
(*                                                                         *)
(* Ids are strings; a platform without a parent station has the empty      *)
(* string in its parent_station field.                                     *)
(***************************************************************************)

\* assemble_stops: the deque of stops, and station_to_child_stops, which gets
\* an entry under the parent_station field of every platform
AssembleStops ==
    /\ build.kind = "stops"
    /\ build.pc = "assembling"
    /\ LET gtfs_stops == build.gtfs_stops
           keys == {gtfs_stops[k].parent_station : k \in 1..Len(gtfs_stops)}
           Children(key) ==
               LET of_key == SelectSeq(gtfs_stops, LAMBDA g : g.parent_station = key)
               IN [k \in 1..Len(of_key) |-> of_key[k].stop_id]
       IN build' = [build EXCEPT
                        !.pc = "assembled",
                        !.stops = [k \in 1..Len(gtfs_stops) |->
                                      [gtfs_id |-> gtfs_stops[k].stop_id, parent_station |-> <<>>]],
                        !.station_to_child_stops = [key \in keys |-> Children(key)]]
    /\ UNCHANGED <<shared, assertions, qs, hist>>

\* assemble_stations, then the StopManager constructor with
\* initialise_relationships: station_index.at(station_id) throws for an id
\* that no station has, whichever entry of the map comes first
InitialiseRelationships ==
    /\ build.kind = "stops"
    /\ build.pc = "assembled"
    /\ LET station_index == Range(build.gtfs_stations)
           ParentOf(stop) ==
               LET holding == {key \in DOMAIN build.station_to_child_stops :
                                  stop.gtfs_id \in Range(build.station_to_child_stops[key])}
               IN [stop EXCEPT !.parent_station = <<CHOOSE key \in holding : TRUE>>]
       IN IF \E station_id \in DOMAIN build.station_to_child_stops :
                 station_id \notin station_index
          THEN build' = [build EXCEPT !.pc = "out_of_range"]
          ELSE build' = [build EXCEPT
                             !.pc = "built",
                             !.stops = [k \in 1..Len(build.stops) |-> ParentOf(build.stops[k])]]
    /\ UNCHANGED <<shared, assertions, qs, hist>>

\* the platforms of stops.txt, by their parent_station fields
GtfsStops ==
    LET Platforms(parents) ==
            [k \in 1..Len(parents) |->
                [stop_id |-> <<"p1", "p2", "p3">>[k], parent_station |-> parents[k]]]
        ParentFields == {"", "s1", "s2", "s9"}
    IN {Platforms(parents) :
            parents \in UNION {[1..n -> ParentFields] : n \in 1..3}}

InitStops ==
    /\ routes = <<>>
    /\ routes_serving_stop = <<>>
    /\ transfers = <<>>
    /\ assertions = TRUE
    /\ qs = <<>>
    /\ hist = <<>>
    /\ \E gtfs_stops \in GtfsStops,
          gtfs_stations \in {<<>>, <<"s1">>, <<"s1", "s2">>} :
          build = [kind |-> "stops", pc |-> "assembling",
                   gtfs_stops |-> gtfs_stops,
                   gtfs_stations |-> gtfs_stations,
                   stops |-> <<>>,
                   station_to_child_stops |-> <<>>]

NextStops ==
    \/ AssembleStops
    \/ InitialiseRelationships

SpecStops == InitStops /\ [][NextStops]_vars

\* C22: the assembly fails exactly when some platform names a parent station,
\* by a non-empty id, that no station record has; a platform with an empty
\* parent station id is built as a stop without a parent station
C22_FailsOnUnknownStationOnly ==
    (build.kind = "stops" /\ build.pc \in {"built", "out_of_range"}) =>
        /\ build.pc = "out_of_range" <=>
               \E k \in 1..Len(build.gtfs_stops) :
                   /\ build.gtfs_stops[k].parent_station # ""
                   /\ build.gtfs_stops[k].parent_station \notin Range(build.gtfs_stations)
        /\ build.pc = "built" =>
               \A k \in 1..Len(build.gtfs_stops) :
                   build.gtfs_stops[k].parent_station = ""
                       => build.stops[k].parent_station = <<>>

\* C23: building the services fails whenever a calendar_dates record names a
\* service that has no calendar record, whatever its date and exception type
C23_UnknownServiceFails ==
    (build.kind = "services" /\ build.pc = "returned") =>
        \A k \in 1..Len(build.calendar_dates) :
            \E c \in 1..Len(build.calendars) :
                build.calendars[c].service_id = build.calendar_dates[k].service_id

-----------------------------------------------------------------------------
(* The transfer phase and the order of iteration *)

\* C24: within one transfer phase no relaxation starts from an arrival that a
\* relaxation of the same phase has written.  The stops of the phase are
\* marked by the route scan (or are the origin), so the label of each is a
\* ride or the origin's when the phase begins: the stop a step relaxes from
\* must not carry a walking label
C24_SingleHopRelaxation ==
    [][\A q \in DOMAIN qs :
           (qs[q].pc = "transfers" /\ qs'[q].pc = "transfers") =>
               \A u \in qs[q].todo_stops \ qs'[q].todo_stops :
                   LET label == qs[q].state.current_round_labels[u]
                   IN ~(label.boarding_stop # NoStop /\ label.route_and_trip_index = <<>>)]_vars


-----------------------------------------------------------------------------
(* Boarding and changing trips during a route scan *)

\* C25: a scan of a route from position i0, with t_hop the previous-round
\* arrival at the stop of that position, leaves the state that riding the
\* earliest trip departing position i0 at or after t_hop leaves; a trip that
\* departs exactly at t_hop is boarded
C25_BoardsTripNotBefore ==
    [][\A q \in DOMAIN qs :
           (qs[q].pc = "scan" /\ qs'[q].pc = "scan") =>
               \A p \in qs[q].todo_routes \ qs'[q].todo_routes :
                   LET route == routes[p[1]]
                       hop_on_stop == StopSequence(route)[p[2]]
                       t_hop == PreviousArrivalTimeToStop(qs[q].state, hop_on_stop)
                       trip == FindEarliestTripNotBefore(route.trips, t_hop, p[2])
                   IN trip <= Len(route.trips) =>
                          qs'[q].state = ScanTrip(qs[q].state, route, p[1], trip,
                                                  hop_on_stop, p[2] + 1).state]_vars


\* C26: while a route is scanned the trip followed changes at a position only
\* to a trip standing strictly earlier in the route's trip order whose
\* departure at that position is no earlier than the previous-round arrival at
\* the current stop, and the hop-on stop then becomes the current stop; where
\* the trip does not change the hop-on stop is kept
C26_ChangesToEarlierTripOnly ==
    [][\A q \in DOMAIN qs :
           (qs[q].pc = "scan" /\ qs'[q].pc = "scan") =>
               \A p \in qs[q].todo_routes \ qs'[q].todo_routes :
                   LET route == routes[p[1]]
                       hop_on_time ==
                           PreviousArrivalTimeToStop(qs[q].state, StopSequence(route)[p[2]])
                       followed == ProcessRoute(qs[q].state, route, p[1], p[2],
                                                hop_on_time).followed
                   IN \A k \in 1..Len(followed) :
                          LET step == followed[k]
                          IN IF step.trip_index_after # step.trip_index
                             THEN /\ step.trip_index_after < step.trip_index
                                  /\ route.trips[step.trip_index_after][step.current_stop_idx].departure_time
                                         >= qs[q].state.previous_round_labels[step.current_stop].arrival_time
                                  /\ step.hop_on_stop_after = step.current_stop
                             ELSE step.hop_on_stop_after = step.hop_on_stop]_vars


-----------------------------------------------------------------------------
(* The marked set at the end of a round *)

\* C27: when a round k >= 1 has ended, after its route scans and its transfer
\* relaxation, the marked stops are exactly the stops whose label was first
\* set or got a strictly earlier arrival during the round
C27_MarkedAreImprovedInRound ==
    \A q \in DOMAIN qs :
        (AtLoopHead(qs[q]) /\ qs[q].state.n_round >= 1) =>
            LET now == qs[q].state.current_round_labels
                before == qs[q].state.previous_round_labels
            IN qs[q].state.improved_stops =
                   {s \in DOMAIN now :
                       \/ s \notin DOMAIN before
                       \/ now[s].arrival_time < before[s].arrival_time}

\* a round ended with a stop first set in it, a stop whose arrival it made
\* earlier and a labelled stop it left alone
C27_Witness ==
    \E q \in DOMAIN qs :
        LET now == qs[q].state.current_round_labels
            before == qs[q].state.previous_round_labels
            marked == qs[q].state.improved_stops
        IN /\ AtLoopHead(qs[q]) /\ qs[q].state.n_round >= 1
           /\ \E s \in marked : s \notin DOMAIN before
           /\ \E s \in marked : /\ s \in DOMAIN before
                                /\ now[s].arrival_time < before[s].arrival_time
           /\ \E s \in DOMAIN now : s \notin marked


-----------------------------------------------------------------------------
(* The order of iteration over the marked set *)

\* C28: the instant at which a returned journey reaches the destination is
\* the same for every order in which the marked stops are taken, both when
\* the routes to scan are collected and scanned and when transfers are relaxed
C28_ArrivalIndependentOfOrder ==
    \A q \in DOMAIN qs :
        qs[q].pc = "done" =>
            \A other \in RunAlone({NewQuery(qs[q].origin, qs[q].state.destination,
                                            qs[q].departure_time)},
                                  routes, transfers, routes_serving_stop, assertions) :
                other.pc = "done" =>
                    JourneyArrival(other, routes) = JourneyArrival(qs[q], routes)


-----------------------------------------------------------------------------
(* The search for an earlier trip *)

\* C29: in every scan of a route, wherever an improvement attempt fails and
\* might_catch_earlier_trip holds, the search from the previous-round arrival
\* at the current stop finds a trip: earlier_trip is never end()
C29_EarlierTripIsFound ==
    [][\A q \in DOMAIN qs :
           qs[q].pc = "scan" =>
               \A p \in qs[q].todo_routes \ qs'[q].todo_routes :
                   LET route == routes[p[1]]
                       hop_on_time ==
                           PreviousArrivalTimeToStop(qs[q].state, StopSequence(route)[p[2]])
                   IN ProcessRoute(qs[q].state, route, p[1], p[2], hop_on_time).asserted]_vars


-----------------------------------------------------------------------------
(* Reconstruction of the journey *)

\* C30: when the round loop has ended, following the boarding stops of the
\* current labels back from the destination comes to an end: no stop is met
\* twice and the walk back stops at the label of the origin, which is the only
\* label without a boarding stop
C30_ReconstructionTerminates ==
    \A q \in DOMAIN qs :
        LET labels == qs[q].state.current_round_labels
            built == BuildTrip(routes, qs[q].origin, qs[q].state.destination, labels)
        IN /\ qs[q].pc # "endless"
           /\ (AtLoopHead(qs[q]) /\ ~HaveStopsToImprove(qs[q].state)) =>
                  /\ built.outcome = "returned"
                  /\ \A s \in DOMAIN labels :
                         labels[s].boarding_stop = NoStop <=> s = qs[q].origin
                  /\ built.journey # <<>> => built.journey[1].from_stop = qs[q].origin

\* a journey of three legs, a ride first and a walk last, has been returned
C30_Witness ==
    \E q \in DOMAIN qs :
        /\ qs[q].pc = "done"
        /\ Len(qs[q].journey) = 3
        /\ qs[q].journey[1].kind = "pt"
        /\ qs[q].journey[1].from_stop = qs[q].origin
        /\ qs[q].journey[3].kind = "walk"
        /\ qs[q].journey[3].to_stop = qs[q].state.destination

=============================================================================
